---- MODULE Spec2Model ----
(***************************************************************************)
(* A model of the bf_interpreter pipeline: the Lexer (src/src/lexer.rs),   *)
(* the Optimizer (src/src/optimizer.rs), the Interpreter                   *)
(* (src/src/interpreter.rs) and the driver (src/src/main.rs).              *)
(*                                                                         *)
(* Indices are those of the Rust code: buffer_pos, jump targets, the       *)
(* instruction pointer and the cell pointer count from 0, so element i of  *)
(* a Vec is element i + 1 of the sequence that models it.                  *)
(***************************************************************************)
EXTENDS Integers, Sequences, FiniteSets, TLC

VARIABLES
    source,               \* the bytes of the program text, as handed to the reader
    reader,               \* Lexer.reader: the bytes not yet read
    position,             \* Lexer.position
    buffer,               \* Lexer.buffer: the decoded characters
    buffer_pos,           \* Lexer.buffer_pos
    yielded,              \* the tokens the Lexer iterator has yielded so far
    lex_state,            \* "running", "ended" (next() gave None), "failed" (gave Err)
    tokens,               \* the token iterator handed to Optimizer::optimize
    tok_i,                \* how many of its items optimize has consumed
    instructions,         \* Optimizer.instructions
    jump_stack,           \* Optimizer.jump_stack
    opt_result,           \* what optimize returned: Pending, Ok or the error
    calls,                \* the earlier calls of optimize on this Optimizer, oldest first
    memory_size,          \* InterpreterConfig.memory_size
    debug,                \* InterpreterConfig.debug
    optimize,             \* InterpreterConfig.optimize
    program,              \* Interpreter.instructions
    memory,               \* Interpreter.memory
    pointer,              \* Interpreter.pointer
    instruction_pointer,  \* Interpreter.instruction_pointer
    stdin_read,           \* the bytes read from standard input so far
    stdout,               \* the bytes standard output has accepted so far
    io_fault,             \* where a standard stream failed, NoFault if none did
    run_result,           \* what run returned: Pending, Ok or the error
    trace,                \* the lines run has written to the diagnostic stream
    pc                    \* the position of the driver

lexer_vars == <<source, reader, position, buffer, buffer_pos, yielded, lex_state>>
optimizer_vars == <<tokens, tok_i, instructions, jump_stack, opt_result, calls>>
interpreter_vars ==
    <<memory_size, debug, optimize, program, memory, pointer, instruction_pointer,
      stdin_read, stdout, io_fault, run_result, trace>>
vars == <<lexer_vars, optimizer_vars, interpreter_vars, pc>>

None == "None"

(***************************************************************************)
(* Bounds of the model.                                                    *)
(***************************************************************************)
\* longest program text given to the lexer on its own
MaxSrc == 3
\* longest token sequence given to the optimizer, all sequences enumerated
MaxTokens == 4
\* how far past the u8 range the runs of one operator reach
MaxOver == 1
\* longest program compiled and run, all programs enumerated
MaxProg == 4
\* largest tape
MaxMem == 2
\* longest standard input, and the most bytes standard output accepts
MaxInput == 2
MaxOutput == 2
\* longest program text given to main, all texts enumerated
MaxMain == 3
\* most lines of the debug trace followed
MaxTrace == 12
MaxStraight == 3
\* longest token sequence given to an optimizer that is used again, and the
\* most calls of optimize on one optimizer
MaxReuse == 2
MaxCalls == 3
\* steps granted to the reference execution of a program
RefFuel == 2048
\* machine word width of the model (usize)
UsizeBits == 16

(***************************************************************************)
(* Program constants.                                                      *)
(***************************************************************************)
\* let mut buf = [0u8; 1024]
ReadSize == 1024
\* Instruction::Increment(u8), memory: Vec<u8>
U8Modulus == 256
UsizeModulus == 2 ^ UsizeBits

Min(a, b) == IF a < b THEN a ELSE b
Last(s) == s[Len(s)]
Front(s) == SubSeq(s, 1, Len(s) - 1)

(***************************************************************************)
(* error.rs                                                                *)
(***************************************************************************)
NewPosition(l, c) == [line |-> l, column |-> c]
DefaultPosition == [line |-> 1, column |-> 1]

\* Result values: Ok(..) carries NoError, Err(e) the error e
NoError == [kind |-> None]
Pending == [kind |-> "Pending"]
Ok == [kind |-> "Ok"]
UnmatchedBracket(p) == [kind |-> "UnmatchedBracket", position |-> p]
MemoryOutOfBounds(a) == [kind |-> "MemoryOutOfBounds", address |-> a]
IoError == [kind |-> "IoError"]
\* a panic (an index out of range) is not an error value: the thread unwinds
Panic == [kind |-> "Panic"]

(***************************************************************************)
(* lexer.rs                                                                *)
(***************************************************************************)
OperatorChars == {">", "<", "+", "-", ".", ",", "[", "]"}
\* 0xC3 0xA9 is the UTF-8 encoding of U+00E9; either byte alone is invalid
LeadByte == "0xC3"
ContByte == "0xA9"
SourceBytes == OperatorChars \cup {"a", "\n", LeadByte, ContByte}

from_char(c) ==
    CASE c = ">" -> "MoveRight"
      [] c = "<" -> "MoveLeft"
      [] c = "+" -> "Increment"
      [] c = "-" -> "Decrement"
      [] c = "." -> "Output"
      [] c = "," -> "Input"
      [] c = "[" -> "LoopStart"
      [] c = "]" -> "LoopEnd"
      [] OTHER -> None

\* String::from_utf8_lossy(..).chars(): a complete sequence decodes to its
\* character, every byte of an invalid one to U+FFFD
from_utf8_lossy(bytes) ==
    LET Paired(i) == i >= 1 /\ i < Len(bytes) /\ bytes[i] = LeadByte /\ bytes[i + 1] = ContByte
        decoded == [i \in 1..Len(bytes) |->
                      IF Paired(i) THEN "U+00E9"
                      ELSE IF Paired(i - 1) THEN ""
                      ELSE IF bytes[i] \in {LeadByte, ContByte} THEN "U+FFFD"
                      ELSE bytes[i]]
        IsChar(c) == c # ""
    IN  SelectSeq(decoded, IsChar)

update_position(pos, c) ==
    IF c = "\n" THEN [line |-> pos.line + 1, column |-> 1]
    ELSE [pos EXCEPT !.column = @ + 1]

\* Option<Token>::None
NoToken == [kind |-> None]

\* rd is what reader.read returned: Err, or Ok(n) for n bytes put in buf
ReadErr == [ok |-> FALSE, n |-> 0]
ReadOk(n) == [ok |-> TRUE, n |-> n]

read_more(lx, rd) ==
    IF ~rd.ok THEN [lexer |-> lx, err |-> IoError]
    ELSE IF rd.n = 0 THEN [lexer |-> lx, err |-> NoError]
    ELSE [lexer |-> [lx EXCEPT
                        !.reader = SubSeq(@, rd.n + 1, Len(@)),
                        !.buffer = @ \o from_utf8_lossy(SubSeq(lx.reader, 1, rd.n))],
          err |-> NoError]

\* the loop of next_token: consume characters up to and including the first operator
RECURSIVE skip_loop(_)
skip_loop(lx) ==
    IF lx.buffer_pos < Len(lx.buffer) THEN
        LET c == lx.buffer[lx.buffer_pos + 1]
            lx1 == [lx EXCEPT !.buffer_pos = @ + 1,
                              !.position = update_position(@, c)]
        IN  IF from_char(c) # None
            THEN [lexer |-> lx1, err |-> NoError,
                  token |-> [kind |-> from_char(c), position |-> lx1.position]]
            ELSE skip_loop(lx1)
    ELSE [lexer |-> lx, err |-> NoError, token |-> NoToken]

next_token(lx, rd) ==
    LET r == IF lx.buffer_pos >= Len(lx.buffer) THEN read_more(lx, rd)
             ELSE [lexer |-> lx, err |-> NoError]
    IN  IF r.err # NoError THEN [lexer |-> r.lexer, err |-> r.err, token |-> NoToken]
        ELSE skip_loop(r.lexer)

\* Lexer::new
NewLexer(bytes) ==
    [reader |-> bytes, position |-> DefaultPosition, buffer |-> <<>>, buffer_pos |-> 0]

\* what a call of Read::read may return for a buffer of ReadSize bytes
ReadOutcomes(rest) ==
    {ReadErr} \cup
    (IF rest = <<>> THEN {ReadOk(0)} ELSE {ReadOk(n) : n \in 1..Min(ReadSize, Len(rest))})

\* the tokens a lexer yields when every read fills the buffer as far as it can
\* (a Cursor or a BufReader over a text shorter than ReadSize), collected as the
\* for loop of optimize does, until next() gives None
collect_step(acc) ==
    IF acc.done THEN acc
    ELSE LET r == next_token(acc.lexer, ReadOk(Min(ReadSize, Len(acc.lexer.reader))))
         IN  IF r.token = NoToken
             THEN [lexer |-> r.lexer, tokens |-> acc.tokens, done |-> TRUE]
             ELSE [lexer |-> r.lexer, tokens |-> Append(acc.tokens, r.token), done |-> FALSE]

RECURSIVE collect_steps(_, _)
collect_steps(acc, n) ==
    IF n = 0 THEN acc
    ELSE IF n = 1 THEN collect_step(acc)
    ELSE LET half == collect_steps(acc, n \div 2)
         IN  IF half.done THEN half ELSE collect_steps(half, n - (n \div 2))

LexAll(lx) ==
    collect_steps([lexer |-> lx, tokens |-> <<>>, done |-> FALSE], Len(lx.reader) + 1).tokens

(***************************************************************************)
(* optimizer.rs                                                            *)
(***************************************************************************)
Inst(op, n) == [op |-> op, n |-> n]

\* Optimizer::new
NewOptimizer == [instructions |-> <<>>, jump_stack |-> <<>>]

\* a variant that keeps what the vector holds
clear_skipped(v) == v

\* Vec::clear
clear(v) == <<>>

\* the match of optimize_move, optimize_arithmetic and optimize_io: the last
\* instruction has the variant the token asks for
MergesInto(insts, op) == insts # <<>> /\ Last(insts).op = op

\* a variant that merges a move into a move of either direction
optimize_move_any_direction(insts, count, right) ==
    LET op == IF right THEN "MoveRight" ELSE "MoveLeft"
    IN  IF insts # <<>> /\ Last(insts).op \in {"MoveRight", "MoveLeft"}
        THEN [insts EXCEPT ![Len(insts)].n = @ + count]
        ELSE Append(insts, Inst(op, count))

optimize_move(insts, count, right) ==
    LET op == IF right THEN "MoveRight" ELSE "MoveLeft"
    IN  IF MergesInto(insts, op)
        THEN [insts EXCEPT ![Len(insts)].n = @ + count]
        ELSE Append(insts, Inst(op, count))

\* a variant that adds without wrapping
optimize_arithmetic_unwrapped(insts, count, increment) ==
    LET op == IF increment THEN "Increment" ELSE "Decrement"
    IN  IF MergesInto(insts, op)
        THEN [insts EXCEPT ![Len(insts)].n = @ + count]
        ELSE Append(insts, Inst(op, count))

optimize_arithmetic(insts, count, increment) ==
    LET op == IF increment THEN "Increment" ELSE "Decrement"
    IN  IF MergesInto(insts, op)
        THEN [insts EXCEPT ![Len(insts)].n = (@ + count) % U8Modulus]
        ELSE Append(insts, Inst(op, count))

\* a variant that merges an input into an output and an output into an input
optimize_io_any_direction(insts, count, output) ==
    LET op == IF output THEN "Output" ELSE "Input"
    IN  IF insts # <<>> /\ Last(insts).op \in {"Output", "Input"}
        THEN [insts EXCEPT ![Len(insts)].n = @ + count]
        ELSE Append(insts, Inst(op, count))

optimize_io(insts, count, output) ==
    LET op == IF output THEN "Output" ELSE "Input"
    IN  IF MergesInto(insts, op)
        THEN [insts EXCEPT ![Len(insts)].n = @ + count]
        ELSE Append(insts, Inst(op, count))

\* an optimizer is [instructions, jump_stack]; a handler returns the optimizer
\* it leaves and the error it returns
\* a variant that pushes the index after the placeholder is emitted
handle_loop_start_index_after(opt) ==
    [instructions |-> Append(opt.instructions, Inst("JumpForward", 0)),
     jump_stack |-> Append(opt.jump_stack, Len(opt.instructions) + 1)]

handle_loop_start(opt) ==
    [instructions |-> Append(opt.instructions, Inst("JumpForward", 0)),
     jump_stack |-> Append(opt.jump_stack, Len(opt.instructions))]

\* a variant that patches the forward jump to the index after the backward jump
handle_loop_end_patch_past(opt, pos) ==
    IF opt.jump_stack # <<>> THEN
        LET start_index == Last(opt.jump_stack)
            insts == opt.instructions
            patched ==
                IF start_index < Len(insts) /\ insts[start_index + 1].op = "JumpForward"
                THEN [insts EXCEPT ![start_index + 1] = Inst("JumpForward", Len(insts) + 1)]
                ELSE insts
        IN  [opt |-> [instructions |-> Append(patched, Inst("JumpBackward", start_index)),
                      jump_stack |-> Front(opt.jump_stack)],
             err |-> NoError]
    ELSE [opt |-> opt, err |-> UnmatchedBracket(pos)]

\* a variant whose backward jump goes to the first instruction of the loop body
handle_loop_end_back_to_body(opt, pos) ==
    IF opt.jump_stack # <<>> THEN
        LET start_index == Last(opt.jump_stack)
            insts == opt.instructions
            patched ==
                IF start_index < Len(insts) /\ insts[start_index + 1].op = "JumpForward"
                THEN [insts EXCEPT ![start_index + 1] = Inst("JumpForward", Len(insts))]
                ELSE insts
        IN  [opt |-> [instructions |-> Append(patched, Inst("JumpBackward", start_index + 1)),
                      jump_stack |-> Front(opt.jump_stack)],
             err |-> NoError]
    ELSE [opt |-> opt, err |-> UnmatchedBracket(pos)]

\* a variant that drops a loop end with no loop open
handle_loop_end_unmatched_ignored(opt, pos) ==
    IF opt.jump_stack # <<>> THEN
        LET start_index == Last(opt.jump_stack)
            insts == opt.instructions
            patched ==
                IF start_index < Len(insts) /\ insts[start_index + 1].op = "JumpForward"
                THEN [insts EXCEPT ![start_index + 1] = Inst("JumpForward", Len(insts))]
                ELSE insts
        IN  [opt |-> [instructions |-> Append(patched, Inst("JumpBackward", start_index)),
                      jump_stack |-> Front(opt.jump_stack)],
             err |-> NoError]
    ELSE [opt |-> opt, err |-> NoError]

\* a variant that reports the default position for a loop end with no loop open
handle_loop_end_default_position(opt, pos) ==
    IF opt.jump_stack # <<>> THEN
        LET start_index == Last(opt.jump_stack)
            insts == opt.instructions
            patched ==
                IF start_index < Len(insts) /\ insts[start_index + 1].op = "JumpForward"
                THEN [insts EXCEPT ![start_index + 1] = Inst("JumpForward", Len(insts))]
                ELSE insts
        IN  [opt |-> [instructions |-> Append(patched, Inst("JumpBackward", start_index)),
                      jump_stack |-> Front(opt.jump_stack)],
             err |-> NoError]
    ELSE [opt |-> opt, err |-> UnmatchedBracket(DefaultPosition)]

handle_loop_end(opt, pos) ==
    IF opt.jump_stack # <<>> THEN
        LET start_index == Last(opt.jump_stack)
            insts == opt.instructions
            patched ==
                IF start_index < Len(insts) /\ insts[start_index + 1].op = "JumpForward"
                THEN [insts EXCEPT ![start_index + 1] = Inst("JumpForward", Len(insts))]
                ELSE insts
        IN  [opt |-> [instructions |-> Append(patched, Inst("JumpBackward", start_index)),
                      jump_stack |-> Front(opt.jump_stack)],
             err |-> NoError]
    ELSE [opt |-> opt, err |-> UnmatchedBracket(pos)]

process_token(opt, token) ==
    LET insts == opt.instructions
        keep(new) == [opt |-> [opt EXCEPT !.instructions = new], err |-> NoError]
    IN  CASE token.kind = "MoveRight" -> keep(optimize_move(insts, 1, TRUE))
          [] token.kind = "MoveLeft" -> keep(optimize_move(insts, 1, FALSE))
          [] token.kind = "Increment" -> keep(optimize_arithmetic(insts, 1, TRUE))
          [] token.kind = "Decrement" -> keep(optimize_arithmetic(insts, 1, FALSE))
          [] token.kind = "Output" -> keep(optimize_io(insts, 1, TRUE))
          [] token.kind = "Input" -> keep(optimize_io(insts, 1, FALSE))
          [] token.kind = "LoopStart" -> [opt |-> handle_loop_start(opt), err |-> NoError]
          [] token.kind = "LoopEnd" -> handle_loop_end(opt, token.position)

\* a variant that does not look at the loop stack
unmatched_check_skipped(opt) == Ok

\* a variant that reports the index of the first loop still open as the column
unmatched_check_column_of_index(opt) ==
    IF opt.jump_stack # <<>>
    THEN UnmatchedBracket(NewPosition(1, opt.jump_stack[1] + 1))
    ELSE Ok

\* the check of optimize once the tokens are consumed
unmatched_check(opt) ==
    IF opt.jump_stack # <<>> THEN
        UnmatchedBracket(
            IF \E i \in 1..Len(opt.instructions) : opt.instructions[i].op = "JumpForward"
            THEN NewPosition(1, 1)
            ELSE DefaultPosition)
    ELSE Ok

(***************************************************************************)
(* interpreter.rs                                                          *)
(***************************************************************************)
\* Interpreter::new; an interpreter is [instructions, memory, pointer,
\* instruction_pointer] with the standard streams it reads and writes
NewInterpreter(insts, size) ==
    [instructions |-> insts,
     memory |-> [i \in 1..size |-> 0],
     pointer |-> 0,
     instruction_pointer |-> 0,
     stdin_read |-> <<>>,
     stdout |-> <<>>,
     io_fault |-> [on |-> None, at |-> 0]]

Cell(it) == it.memory[it.pointer + 1]
Advance(it) == [it EXCEPT !.instruction_pointer = @ + 1]
Returns(it, e) == [it |-> it, err |-> e]

\* a variant that stays on the instruction after it has written
execute_output_no_advance(it, count, io) ==
    LET out == it.stdout \o [i \in 1..io.accepted |-> Cell(it)]
        wrote == [it EXCEPT !.stdout = out]
    IN  IF io.accepted < count
        THEN Returns([wrote EXCEPT !.io_fault = [on |-> "write", at |-> Len(out)]], IoError)
        ELSE IF ~io.flush_ok
        THEN Returns([wrote EXCEPT !.io_fault = [on |-> "flush", at |-> Len(out)]], IoError)
        ELSE Returns(wrote, NoError)

\* Output(count): io.accepted bytes are written before write_all fails; when all
\* count are written, flush succeeds or not (io.flush_ok)
execute_output(it, count, io) ==
    LET out == it.stdout \o [i \in 1..io.accepted |-> Cell(it)]
        wrote == [it EXCEPT !.stdout = out]
    IN  IF io.accepted < count
        THEN Returns([wrote EXCEPT !.io_fault = [on |-> "write", at |-> Len(out)]], IoError)
        ELSE IF ~io.flush_ok
        THEN Returns([wrote EXCEPT !.io_fault = [on |-> "flush", at |-> Len(out)]], IoError)
        ELSE Returns(Advance(wrote), NoError)

\* a variant that stores the first byte read and drops the later ones
execute_input_first_byte(it, count, io) ==
    LET got == Len(io.data)
        inp == it.stdin_read \o io.data
        stored == IF got = 0 THEN [it EXCEPT !.stdin_read = inp]
                  ELSE [it EXCEPT !.stdin_read = inp,
                                  !.memory[it.pointer + 1] = io.data[1]]
    IN  IF got < count
        THEN Returns([stored EXCEPT !.io_fault = [on |-> "read", at |-> Len(inp)]], IoError)
        ELSE Returns(Advance(stored), NoError)

\* Input(count): io.data are the bytes read_exact delivers before it fails; the
\* cell is overwritten after each read
execute_input(it, count, io) ==
    LET got == Len(io.data)
        inp == it.stdin_read \o io.data
        stored == IF got = 0 THEN [it EXCEPT !.stdin_read = inp]
                  ELSE [it EXCEPT !.stdin_read = inp,
                                  !.memory[it.pointer + 1] = io.data[got]]
    IN  IF got < count
        THEN Returns([stored EXCEPT !.io_fault = [on |-> "read", at |-> Len(inp)]], IoError)
        ELSE Returns(Advance(stored), NoError)

\* u8::wrapping_add and u8::wrapping_sub
wrapping_add(a, b) == (a + b) % U8Modulus

\* a variant that stops at 0 instead of wrapping
saturating_sub(a, b) == IF a < b THEN 0 ELSE a - b

wrapping_sub(a, b) == (a + U8Modulus - b) % U8Modulus

\* a variant that lets the pointer rest on the cell after the last
execute_move_right_past_end(it, count) ==
    LET moved == [it EXCEPT !.pointer = (@ + count) % UsizeModulus]
    IN  IF moved.pointer > Len(moved.memory)
        THEN Returns(moved, MemoryOutOfBounds(moved.pointer))
        ELSE Returns(Advance(moved), NoError)

\* a variant that lengthens the tape when the pointer leaves it
execute_move_right_growing(it, count) ==
    LET moved == [it EXCEPT !.pointer = (@ + count) % UsizeModulus]
        cells == IF moved.pointer >= Len(moved.memory) THEN moved.pointer + 1
                 ELSE Len(moved.memory)
    IN  Returns(Advance([moved EXCEPT !.memory =
                    [i \in 1..cells |-> IF i <= Len(it.memory) THEN it.memory[i] ELSE 0]]),
                NoError)

\* MoveRight(count): the pointer is assigned before it is checked
execute_move_right(it, count) ==
    LET moved == [it EXCEPT !.pointer = (@ + count) % UsizeModulus]
    IN  IF moved.pointer >= Len(moved.memory)
        THEN Returns(moved, MemoryOutOfBounds(moved.pointer))
        ELSE Returns(Advance(moved), NoError)

\* a variant that reports the address with saturating_sub
execute_move_left_saturating(it, count) ==
    IF it.pointer < count
    THEN Returns(it, MemoryOutOfBounds(0))
    ELSE Returns(Advance([it EXCEPT !.pointer = @ - count]), NoError)

\* MoveLeft(count): the address reported is pointer.wrapping_sub(count)
execute_move_left(it, count) ==
    IF it.pointer < count
    THEN Returns(it, MemoryOutOfBounds((it.pointer + UsizeModulus - count) % UsizeModulus))
    ELSE Returns(Advance([it EXCEPT !.pointer = @ - count]), NoError)

\* a variant that takes the target as a distance from the jump
execute_jump_forward_relative(it, target) ==
    IF Cell(it) = 0
    THEN Returns([it EXCEPT !.instruction_pointer = @ + target], NoError)
    ELSE Returns(Advance(it), NoError)

\* a variant that skips the loop when the cell is not zero
execute_jump_forward_on_nonzero(it, target) ==
    IF Cell(it) # 0
    THEN Returns([it EXCEPT !.instruction_pointer = target], NoError)
    ELSE Returns(Advance(it), NoError)

\* JumpForward(target): an absolute jump when the cell is zero
execute_jump_forward(it, target) ==
    IF Cell(it) = 0
    THEN Returns([it EXCEPT !.instruction_pointer = target], NoError)
    ELSE Returns(Advance(it), NoError)

\* a variant that goes back when the cell is zero
execute_jump_backward_on_zero(it, target) ==
    IF Cell(it) = 0
    THEN Returns([it EXCEPT !.instruction_pointer = target], NoError)
    ELSE Returns(Advance(it), NoError)

execute_jump_backward(it, target) ==
    IF Cell(it) # 0
    THEN Returns([it EXCEPT !.instruction_pointer = target], NoError)
    ELSE Returns(Advance(it), NoError)

execute_instruction(it, io) ==
    LET instruction == it.instructions[it.instruction_pointer + 1]
        count == instruction.n
        target == instruction.n
    IN  CASE instruction.op = "MoveRight" -> execute_move_right(it, count)
          [] instruction.op = "MoveLeft" -> execute_move_left(it, count)
          [] instruction.op = "Increment" ->
               Returns(Advance([it EXCEPT !.memory[it.pointer + 1] =
                                              wrapping_add(@, count)]), NoError)
          [] instruction.op = "Decrement" ->
               Returns(Advance([it EXCEPT !.memory[it.pointer + 1] =
                                              wrapping_sub(@, count)]), NoError)
          [] instruction.op = "Output" -> execute_output(it, count, io)
          [] instruction.op = "Input" -> execute_input(it, count, io)
          [] instruction.op = "JumpForward" -> execute_jump_forward(it, target)
          [] instruction.op = "JumpBackward" -> execute_jump_backward(it, target)

\* a variant that shows the cell to the right of the current one
trace_line_next_cell(it) ==
    IF it.pointer + 1 < Len(it.memory)
    THEN [kind |-> "Line",
          ip |-> it.instruction_pointer,
          ptr |-> it.pointer,
          cell |-> it.memory[it.pointer + 2],
          inst |-> it.instructions[it.instruction_pointer + 1]]
    ELSE Panic

\* the eprintln! of run: "IP: {}, PTR: {}, CELL: {}, INST: {:?}"; indexing
\* memory[pointer] panics when the pointer is out of range
trace_line(it) ==
    IF it.pointer < Len(it.memory)
    THEN [kind |-> "Line",
          ip |-> it.instruction_pointer,
          ptr |-> it.pointer,
          cell |-> it.memory[it.pointer + 1],
          inst |-> it.instructions[it.instruction_pointer + 1]]
    ELSE Panic

\* one turn of the while loop of run: the trace line if debug is set, then
\* execute_instruction
run_turn(it, dbg, io) ==
    IF dbg /\ trace_line(it) = Panic
    THEN [it |-> it, err |-> Panic, traced |-> <<>>]
    ELSE LET r == execute_instruction(it, io)
         IN  [it |-> r.it, err |-> r.err,
              traced |-> IF dbg THEN <<trace_line(it)>> ELSE <<>>]

(***************************************************************************)
(* The state machines.                                                     *)
(***************************************************************************)
Lexer == [reader |-> reader, position |-> position, buffer |-> buffer,
          buffer_pos |-> buffer_pos]
Optimizer == [instructions |-> instructions, jump_stack |-> jump_stack]

Interpreter ==
    [instructions |-> program, memory |-> memory, pointer |-> pointer,
     instruction_pointer |-> instruction_pointer, stdin_read |-> stdin_read,
     stdout |-> stdout, io_fault |-> io_fault]

NoFault == [on |-> None, at |-> 0]

RECURSIVE SeqsUpTo(_, _)
SeqsUpTo(S, n) ==
    IF n = 0 THEN {<<>>}
    ELSE LET shorter == SeqsUpTo(S, n - 1)
         IN  shorter \cup {Append(s, x) : s \in {t \in shorter : Len(t) = n - 1}, x \in S}

Run(c, n) == [i \in 1..n |-> c]

LexerFresh ==
    /\ reader = source
    /\ position = DefaultPosition
    /\ buffer = <<>>
    /\ buffer_pos = 0
    /\ yielded = <<>>
    /\ lex_state = "running"
OptimizerFresh ==
    /\ tok_i = 0 /\ instructions = <<>> /\ jump_stack = <<>> /\ opt_result = Pending
    /\ calls = <<>>
InterpreterIdle ==
    /\ program = <<>> /\ memory = <<>> /\ pointer = 0 /\ instruction_pointer = 0
    /\ stdin_read = <<>> /\ stdout = <<>> /\ io_fault = NoFault /\ run_result = Pending
    /\ trace = <<>>
\* InterpreterConfig::default, but for memory_size
DefaultConfig == debug = FALSE /\ optimize = TRUE

(***************************************************************************)
(* SpecLexer: a lexer over any text, read in pieces of any size.           *)
(***************************************************************************)
InitLexer ==
    /\ source \in SeqsUpTo(SourceBytes, MaxSrc)
    /\ LexerFresh
    /\ tokens = <<>>
    /\ OptimizerFresh
    /\ memory_size = 0
    /\ InterpreterIdle
    /\ DefaultConfig
    /\ pc = "lex"

\* one call of Iterator::next on the lexer, by a consumer that stops at None or Err
LexerNext ==
    /\ pc = "lex"
    /\ lex_state = "running"
    /\ \E rd \in IF buffer_pos >= Len(buffer) THEN ReadOutcomes(reader) ELSE {ReadOk(0)} :
         LET r == next_token(Lexer, rd) IN
         /\ reader' = r.lexer.reader
         /\ position' = r.lexer.position
         /\ buffer' = r.lexer.buffer
         /\ buffer_pos' = r.lexer.buffer_pos
         /\ yielded' = IF r.token # NoToken THEN Append(yielded, r.token) ELSE yielded
         /\ lex_state' = IF r.err # NoError THEN "failed"
                         ELSE IF r.token = NoToken THEN "ended" ELSE "running"
    /\ UNCHANGED <<source, optimizer_vars, interpreter_vars, pc>>

NextLexer == LexerNext

SpecLexer == InitLexer /\ [][NextLexer]_vars

(***************************************************************************)
(* SpecOptimizer: Optimizer::optimize over the tokens of any operator      *)
(* text, and of the runs of one operator that reach past the u8 range.     *)
(***************************************************************************)
NonBracketChars == OperatorChars \ {"[", "]"}
RunLengths == (1..MaxTokens) \cup ((U8Modulus - 1)..(U8Modulus + MaxOver))
OptimizerSources ==
    SeqsUpTo(OperatorChars, MaxTokens)
        \cup {Run(c, n) : c \in NonBracketChars, n \in RunLengths}

InitOptimizer ==
    /\ source \in OptimizerSources
    /\ LexerFresh
    /\ tokens = LexAll(NewLexer(source))
    /\ OptimizerFresh
    /\ memory_size = 0
    /\ InterpreterIdle
    /\ DefaultConfig
    /\ pc = "start"

\* optimize: the two clear() calls
OptimizeBegin ==
    /\ pc = "start"
    /\ instructions' = clear(instructions)
    /\ jump_stack' = clear(jump_stack)
    /\ pc' = "optimize"
    /\ UNCHANGED <<lexer_vars, tokens, tok_i, opt_result, calls, interpreter_vars>>

\* optimize: one turn of the for loop
OptimizeToken ==
    /\ pc = "optimize"
    /\ tok_i < Len(tokens)
    /\ LET r == process_token(Optimizer, tokens[tok_i + 1]) IN
         /\ tok_i' = tok_i + 1
         /\ instructions' = r.opt.instructions
         /\ jump_stack' = r.opt.jump_stack
         /\ opt_result' = IF r.err # NoError THEN r.err ELSE opt_result
         /\ pc' = IF r.err # NoError THEN "compile_failed" ELSE pc
    /\ UNCHANGED <<lexer_vars, tokens, calls, interpreter_vars>>

\* optimize: the iterator is exhausted
OptimizeEnd ==
    /\ pc = "optimize"
    /\ tok_i = Len(tokens)
    /\ opt_result' = unmatched_check(Optimizer)
    /\ pc' = IF opt_result' = Ok THEN "compiled" ELSE "compile_failed"
    /\ UNCHANGED <<lexer_vars, tokens, tok_i, instructions, jump_stack, calls,
                   interpreter_vars>>

NextOptimizer == OptimizeBegin \/ OptimizeToken \/ OptimizeEnd

SpecOptimizer == InitOptimizer /\ [][NextOptimizer]_vars

(***************************************************************************)
(* SpecReuse: one Optimizer whose optimize(&mut self, ..) is called again  *)
(* after it returned, on another token sequence or on the same one.        *)
(***************************************************************************)
ReuseSources == SeqsUpTo({"+", ">", "[", "]"}, MaxReuse)

InitReuse ==
    /\ source \in ReuseSources
    /\ LexerFresh
    /\ tokens = LexAll(NewLexer(source))
    /\ OptimizerFresh
    /\ memory_size = 0
    /\ InterpreterIdle
    /\ DefaultConfig
    /\ pc = "start"

\* the caller hands the optimizer that has returned another token sequence
OptimizeAgain ==
    /\ pc \in {"compiled", "compile_failed"}
    /\ Len(calls) + 1 < MaxCalls
    /\ calls' = Append(calls, [result |-> opt_result.kind, pending |-> Len(jump_stack)])
    /\ source' \in ReuseSources
    /\ reader' = source'
    /\ tokens' = LexAll(NewLexer(source'))
    /\ tok_i' = 0
    /\ opt_result' = Pending
    /\ pc' = "start"
    /\ UNCHANGED <<position, buffer, buffer_pos, yielded, lex_state, instructions,
                   jump_stack, interpreter_vars>>

NextReuse == OptimizeBegin \/ OptimizeToken \/ OptimizeEnd \/ OptimizeAgain

SpecReuse == InitReuse /\ [][NextReuse]_vars

(***************************************************************************)
(* Spec: a program is compiled and run, as run_brainfuck_program and the   *)
(* interpreter's tests do: optimize, Interpreter::new, run.                *)
(***************************************************************************)
\* the programs of the repository's tests
TestPrograms ==
    { <<"+", "+", "+">>,
      <<">", "+", "+", "+", "<", "+">>,
      <<"+", "+", "+", "[", ">", "+", "<", "-", "]">>,
      <<"<">>,
      <<">", "+", "<", "-", ">", "+">>,
      <<">", "+", "<", "-", "[", "]", ",", ".">> }
\* longer programs with merged runs in and around loops
LoopPrograms ==
    { <<"+", "+", "[", "-", "]">>,
      <<"+", "+", "[", ">", "+", "+", "<", "-", "]", ">", ".">>,
      <<"+", "[", "[", "-", "]", "]", "+">>,
      <<",", "[", ".", ",", "]">>,
      <<"-", "[", "-", "-", "-", "]", ".", ".">>,
      <<"+", "[", ">", "+", "]">>,
      <<",", ",", "[", "-", ">", "+", "<", "]", ">", ".">>,
      <<"+", "[", ">", "[", "+", "]", "<", ".", "]">> }
\* runs of increments and of decrements that reach past the u8 range, on a
\* fresh cell and on a cell that holds a byte read from standard input
ArithmeticPrograms ==
    {prefix \o Run(c, k) : prefix \in {<<>>, <<",">>}, c \in {"+", "-"}, k \in RunLengths}
ProgramSources ==
    SeqsUpTo(OperatorChars, MaxProg) \cup TestPrograms \cup LoopPrograms
        \cup ArithmeticPrograms

InputBytes == {0, 1, U8Modulus - 1}

\* what the standard streams may do during one instruction
IoOutcomes(instruction, read_so_far, written_so_far) ==
    CASE instruction.op = "Input" ->
           {[data |-> d, accepted |-> 0, flush_ok |-> TRUE] :
               d \in SeqsUpTo(InputBytes, Min(instruction.n, MaxInput - read_so_far))}
      [] instruction.op = "Output" ->
           {[data |-> <<>>, accepted |-> w, flush_ok |-> f] :
               w \in 0..Min(instruction.n, MaxOutput - written_so_far), f \in BOOLEAN}
      [] OTHER -> {[data |-> <<>>, accepted |-> 0, flush_ok |-> TRUE]}

Init ==
    /\ source \in ProgramSources
    /\ LexerFresh
    /\ tokens = LexAll(NewLexer(source))
    /\ OptimizerFresh
    /\ memory_size \in 1..MaxMem
    /\ InterpreterIdle
    /\ DefaultConfig
    /\ pc = "start"

\* Interpreter::new(instructions.clone(), config)
InterpreterNew ==
    /\ pc = "compiled"
    /\ LET it == NewInterpreter(instructions, memory_size) IN
         /\ program' = it.instructions
         /\ memory' = it.memory
         /\ pointer' = it.pointer
         /\ instruction_pointer' = it.instruction_pointer
    /\ pc' = "run"
    /\ UNCHANGED <<lexer_vars, optimizer_vars, memory_size, debug, optimize, stdin_read,
                   stdout, io_fault, run_result, trace>>

\* run: one turn of the while loop
Execute ==
    /\ pc = "run"
    /\ instruction_pointer < Len(program)
    /\ debug => Len(trace) < MaxTrace
    /\ \E io \in IoOutcomes(program[instruction_pointer + 1], Len(stdin_read), Len(stdout)) :
         LET r == run_turn(Interpreter, debug, io) IN
         /\ program' = r.it.instructions
         /\ memory' = r.it.memory
         /\ pointer' = r.it.pointer
         /\ instruction_pointer' = r.it.instruction_pointer
         /\ stdin_read' = r.it.stdin_read
         /\ stdout' = r.it.stdout
         /\ io_fault' = r.it.io_fault
         /\ trace' = trace \o r.traced
         /\ run_result' = IF r.err # NoError THEN r.err ELSE run_result
         /\ pc' = IF r.err = Panic THEN "panicked"
                  ELSE IF r.err # NoError THEN "run_failed" ELSE pc
    /\ UNCHANGED <<lexer_vars, optimizer_vars, memory_size, debug, optimize>>

\* run: the while condition fails
RunReturn ==
    /\ pc = "run"
    /\ instruction_pointer >= Len(program)
    /\ run_result' = Ok
    /\ pc' = "done"
    /\ UNCHANGED <<lexer_vars, optimizer_vars, memory_size, debug, optimize, program,
                   memory, pointer, instruction_pointer, stdin_read, stdout, io_fault,
                   trace>>

Next ==
    OptimizeBegin \/ OptimizeToken \/ OptimizeEnd \/ InterpreterNew \/ Execute \/ RunReturn

Spec == Init /\ [][Next]_vars

(***************************************************************************)
(* SpecMain: main and run_brainfuck_program. The command line gives the     *)
(* memory size, --debug and --no-optimize; the lexer reads the file while   *)
(* optimize consumes it, a token at a time, in reads of any size that may   *)
(* fail; the interpreter is built and run once optimize has returned.       *)
(***************************************************************************)
MainBytes == {"+", ">", "[", "]", ".", "a"}
MainPrograms ==
    { <<"+", "[", ">", "+", "<", "-", "]">>,
      <<",", "[", ".", ",", "]">>,
      <<"+", "a", "[", "-", "]", ">", ">">> }
MainSources == SeqsUpTo(MainBytes, MaxMain) \cup MainPrograms

InitMain ==
    /\ source \in MainSources
    /\ LexerFresh
    /\ tokens = <<>>
    /\ OptimizerFresh
    /\ memory_size \in 0..MaxMem
    /\ debug \in BOOLEAN
    /\ optimize \in BOOLEAN
    /\ InterpreterIdle
    /\ pc = "main"

\* a variant that accepts every memory size
memory_size_unchecked(size) == TRUE

\* main: "if cli.memory_size == 0" returns the error "Memory size must be
\* greater than 0"
memory_size_accepted(size) == size # 0

\* main: the memory size is validated before anything else
MainValidate ==
    /\ pc = "main"
    /\ pc' = IF memory_size_accepted(memory_size) THEN "open" ELSE "rejected"
    /\ UNCHANGED <<lexer_vars, optimizer_vars, interpreter_vars>>

\* run_brainfuck_program: File::open fails or gives the reader of the lexer
MainOpen ==
    /\ pc = "open"
    /\ \E opened \in BOOLEAN : pc' = IF opened THEN "start" ELSE "open_failed"
    /\ UNCHANGED <<lexer_vars, optimizer_vars, interpreter_vars>>

\* optimize: one turn of the for loop over the lexer, which reads on demand;
\* tokens holds the tokens consumed so far
OptimizeNext ==
    /\ pc = "optimize"
    /\ \E rd \in IF buffer_pos >= Len(buffer) THEN ReadOutcomes(reader) ELSE {ReadOk(0)} :
         LET r == next_token(Lexer, rd)
             p == IF r.token # NoToken THEN process_token(Optimizer, r.token)
                  ELSE [opt |-> Optimizer,
                        err |-> IF r.err # NoError THEN r.err ELSE unmatched_check(Optimizer)]
         IN  /\ reader' = r.lexer.reader
             /\ position' = r.lexer.position
             /\ buffer' = r.lexer.buffer
             /\ buffer_pos' = r.lexer.buffer_pos
             /\ yielded' = IF r.token # NoToken THEN Append(yielded, r.token) ELSE yielded
             /\ lex_state' = IF r.err # NoError THEN "failed"
                             ELSE IF r.token = NoToken THEN "ended" ELSE "running"
             /\ tokens' = IF r.token # NoToken THEN Append(tokens, r.token) ELSE tokens
             /\ tok_i' = Len(tokens')
             /\ instructions' = p.opt.instructions
             /\ jump_stack' = p.opt.jump_stack
             /\ opt_result' = IF p.err # NoError THEN p.err ELSE opt_result
             /\ pc' = IF p.err = Ok THEN "compiled"
                      ELSE IF p.err # NoError THEN "compile_failed" ELSE pc
    /\ UNCHANGED <<source, calls, interpreter_vars>>

NextMain ==
    MainValidate \/ MainOpen \/ OptimizeBegin \/ OptimizeNext \/ InterpreterNew \/ Execute
        \/ RunReturn

SpecMain == InitMain /\ [][NextMain]_vars

(***************************************************************************)
(* SpecCounter: the programs that move a counter of n increments from      *)
(* cell 0 to cell 1, compiled and run to the end on a tape of two cells    *)
(* or more. run executes one instruction after the other without waiting   *)
(* for anything but the standard streams, which these programs do not use. *)
(***************************************************************************)
MoveCounter == <<"[", ">", "+", "<", "-", "]">>
CounterPrograms == {Run("+", n) \o MoveCounter : n \in {0} \cup RunLengths}

InitCounter ==
    /\ source \in CounterPrograms
    /\ LexerFresh
    /\ tokens = LexAll(NewLexer(source))
    /\ OptimizerFresh
    /\ memory_size \in 2..(MaxMem + 1)
    /\ InterpreterIdle
    /\ DefaultConfig
    /\ pc = "start"

SpecCounter == InitCounter /\ [][Next]_vars /\ WF_vars(Next)

(***************************************************************************)
(* SpecStraight: the programs without a loop, compiled and run to the end. *)
(* run goes from one instruction to the next without waiting for anything  *)
(* but the standard streams, whose every read and write returns, with the  *)
(* bytes or with an error.                                                 *)
(***************************************************************************)
StraightSources ==
    SeqsUpTo(NonBracketChars, MaxStraight)
        \cup {t \in TestPrograms \cup ArithmeticPrograms :
                 \A i \in 1..Len(t) : t[i] \in NonBracketChars}

InitStraight ==
    /\ source \in StraightSources
    /\ LexerFresh
    /\ tokens = LexAll(NewLexer(source))
    /\ OptimizerFresh
    /\ memory_size \in 1..MaxMem
    /\ InterpreterIdle
    /\ DefaultConfig
    /\ pc = "start"

SpecStraight == InitStraight /\ [][Next]_vars /\ WF_vars(Next)

(***************************************************************************)
(* Definitions the properties are stated with.                             *)
(***************************************************************************)
Kinds(toks) == [i \in 1..Len(toks) |-> toks[i].kind]
Ops(insts) == [i \in 1..Len(insts) |-> insts[i].op]
IsOperatorByte(b) == b \in OperatorChars
\* the operator characters of a text, in order, as token kinds
OperatorKindsOf(bytes) ==
    LET ops == SelectSeq(bytes, IsOperatorByte)
    IN  [i \in 1..Len(ops) |-> from_char(ops[i])]

Count(seq, a, b, x) == Cardinality({k \in a..b : seq[k] = x})
\* opening minus closing brackets among seq[a..b]
Balance(seq, a, b, open, close) == Count(seq, a, b, open) - Count(seq, a, b, close)
WellNested(seq, open, close) ==
    /\ \A b \in 1..Len(seq) : Balance(seq, 1, b, open, close) >= 0
    /\ Balance(seq, 1, Len(seq), open, close) = 0
\* the place of the bracket that closes the one at a, and of the one that opens
\* the one at b
MatchClose(seq, a, open, close) ==
    CHOOSE b \in a..Len(seq) :
        /\ Balance(seq, a, b, open, close) = 0
        /\ \A c \in a..(b - 1) : Balance(seq, a, c, open, close) # 0
MatchOpen(seq, b, open, close) ==
    CHOOSE a \in 1..b :
        /\ Balance(seq, a, b, open, close) = 0
        /\ \A c \in (a + 1)..b : Balance(seq, c, b, open, close) # 0

\* instruction indices count from 0
ForwardJumps == {i \in 0..(Len(instructions) - 1) : instructions[i + 1].op = "JumpForward"}
BackwardJumps == {i \in 0..(Len(instructions) - 1) : instructions[i + 1].op = "JumpBackward"}
MatchingBackward(i) ==
    MatchClose(Ops(instructions), i + 1, "JumpForward", "JumpBackward") - 1
MatchingForward(j) ==
    MatchOpen(Ops(instructions), j + 1, "JumpForward", "JumpBackward") - 1

(***************************************************************************)
(* C1: the token kinds the tokenizer yields before it reports              *)
(* end-of-sequence are the operator characters of the source, in order,    *)
(* however the reader splits the source into reads.                        *)
(***************************************************************************)
C1_YieldsEveryOperator ==
    lex_state = "ended" => Kinds(yielded) = OperatorKindsOf(source)

C3_BackwardTargetIsForward ==
    pc = "compiled" =>
        \A j \in BackwardJumps : instructions[j + 1].n = MatchingForward(j)

C3_Witness ==
    /\ pc = "compiled"
    /\ \E j \in BackwardJumps :
         /\ instructions[j + 1].n = 1
         /\ instructions[1].op = "Increment" /\ instructions[1].n = 2

(***************************************************************************)
(* C8: a source of n >= 1 occurrences of one non-bracket operator compiles *)
(* to exactly one instruction of that operator's kind, with count n for    *)
(* moves and I/O and n mod 256 for increment and decrement.                *)
(***************************************************************************)
IsRunOfOne(ks) ==
    /\ ks # <<>>
    /\ ks[1] \notin {"LoopStart", "LoopEnd"}
    /\ \A i \in 1..Len(ks) : ks[i] = ks[1]

C8_RunIsOneInstruction ==
    (pc = "compiled" /\ IsRunOfOne(Kinds(tokens))) =>
        LET k == tokens[1].kind
            n == Len(tokens)
        IN  instructions =
                <<Inst(k, IF k \in {"Increment", "Decrement"} THEN n % U8Modulus ELSE n)>>

C8_Witness ==
    /\ pc = "compiled"
    /\ Kinds(tokens) = Run("Increment", U8Modulus)
    /\ instructions = <<Inst("Increment", 0)>>

(***************************************************************************)
(* C9: a non-bracket token is merged only into an immediately preceding    *)
(* instruction of its own kind, and otherwise starts a new instruction     *)
(* with count 1; so the instructions are one per maximal run of identical  *)
(* non-bracket tokens plus one per bracket, in source order.               *)
(***************************************************************************)
OpOfKind(k) ==
    CASE k = "LoopStart" -> "JumpForward"
      [] k = "LoopEnd" -> "JumpBackward"
      [] OTHER -> k
\* the tokens that start a maximal run, or are brackets
StartsInstruction(ks, i) ==
    i = 1 \/ ks[i] \in {"LoopStart", "LoopEnd"} \/ ks[i] # ks[i - 1]
RunHeads(ks) ==
    LET heads == {i \in 1..Len(ks) : StartsInstruction(ks, i)}
        nth(j) == CHOOSE i \in heads : Cardinality({h \in heads : h <= i}) = j
    IN  [j \in 1..Cardinality(heads) |-> OpOfKind(ks[nth(j)])]

C9_MergeStep ==
    (pc = "optimize" /\ tok_i' = tok_i + 1 /\ pc' = "optimize") =>
        LET k == tokens[tok_i + 1].kind
            last == Len(instructions)
        IN  /\ (k \notin {"LoopStart", "LoopEnd"} /\ last > 0 /\ instructions[last].op = k) =>
                /\ Len(instructions') = last
                /\ instructions'[last].op = k
                /\ instructions'[last].n =
                       IF k \in {"Increment", "Decrement"}
                       THEN (instructions[last].n + 1) % U8Modulus
                       ELSE instructions[last].n + 1
                /\ \A i \in 1..(last - 1) : instructions'[i] = instructions[i]
            /\ (k \notin {"LoopStart", "LoopEnd"} /\ (last = 0 \/ instructions[last].op # k)) =>
                instructions' = Append(instructions, Inst(k, 1))
            /\ Ops(instructions') = RunHeads(Kinds(SubSeq(tokens, 1, tok_i')))

C10_CompilesIffWellNested ==
    LET nested == WellNested(Kinds(tokens), "LoopStart", "LoopEnd")
    IN  /\ pc = "compiled" => (nested /\ opt_result = Ok)
        /\ pc = "compile_failed" => (~nested /\ opt_result.kind = "UnmatchedBracket")
        /\ opt_result = Ok <=> pc = "compiled"

C10_Witness ==
    /\ pc = "compile_failed"
    /\ tok_i = Len(tokens)
    /\ jump_stack # <<>>
    /\ opt_result.kind = "UnmatchedBracket"

(***************************************************************************)
(* C11: when a loop-end token arrives while the loop stack is empty,       *)
(* compilation fails at that token with UnmatchedBracket carrying that     *)
(* token's position, and no later token is consumed, whatever follows.     *)
(***************************************************************************)
\* the places where more loops have been closed than opened
UnopenedEnds(ks) ==
    {i \in {j \in 1..Len(ks) : ks[j] = "LoopEnd"} :
        Balance(ks, 1, i, "LoopStart", "LoopEnd") < 0}

C11_FailsAtUnopenedLoopEnd ==
    \A i \in UnopenedEnds(Kinds(tokens)) :
        (\A j \in UnopenedEnds(Kinds(tokens)) : i <= j) =>
            /\ tok_i <= i
            /\ tok_i = i =>
                 /\ pc = "compile_failed"
                 /\ opt_result = UnmatchedBracket(tokens[i].position)

C11_Witness ==
    /\ pc = "compile_failed"
    /\ Kinds(tokens) = <<"Increment", "LoopEnd", "LoopStart", "Increment">>
    /\ tok_i = 2
    /\ opt_result = UnmatchedBracket(tokens[2].position)
    /\ tokens[2].position # DefaultPosition

(***************************************************************************)
(* C4: in every reachable interpreter state, the state left by a failed    *)
(* instruction included, the cell pointer lies in [0, tape length).        *)
(***************************************************************************)
C4_PointerInTape ==
    pc \in {"run", "done", "run_failed"} => (0 <= pointer /\ pointer < Len(memory))

(***************************************************************************)
(* C5: when an instruction fails, the tape, the cell pointer and the       *)
(* instruction pointer are what they were before the instruction started.  *)
(***************************************************************************)
C5_FailedStep ==
    (pc = "run" /\ pc' = "run_failed") =>
        (memory' = memory /\ pointer' = pointer /\ instruction_pointer' = instruction_pointer)

C5_FailureLeavesState == [][C5_FailedStep]_vars

(***************************************************************************)
(* C12: move-right(n) at cell pointer p fails with MemoryOutOfBounds        *)
(* carrying the address p + n exactly when p + n >= tape length; otherwise  *)
(* the pointer becomes p + n and the instruction pointer advances by 1.     *)
(***************************************************************************)
AtInstruction(op) ==
    /\ pc = "run"
    /\ instruction_pointer < Len(program)
    /\ program[instruction_pointer + 1].op = op

C12_MoveRightStep ==
    AtInstruction("MoveRight") =>
        LET n == program[instruction_pointer + 1].n
        IN  IF pointer + n >= Len(memory)
            THEN /\ pc' = "run_failed"
                 /\ run_result' = MemoryOutOfBounds(pointer + n)
            ELSE /\ pc' = "run"
                 /\ run_result' = Pending
                 /\ pointer' = pointer + n
                 /\ instruction_pointer' = instruction_pointer + 1

C12_MoveRight == [][C12_MoveRightStep]_vars

C12_Witness ==
    /\ pc = "run_failed"
    /\ Len(memory) = 2
    /\ program = <<Inst("MoveRight", 1), Inst("Increment", 1), Inst("MoveRight", 2)>>
    /\ instruction_pointer = 2
    /\ run_result = MemoryOutOfBounds(3)

(***************************************************************************)
(* C13: move-left(n) at cell pointer p fails with MemoryOutOfBounds exactly *)
(* when p < n, reporting the address (p - n) modulo 2^w of the machine      *)
(* word and leaving pointer and tape unchanged; otherwise the pointer       *)
(* becomes p - n and the instruction pointer advances by 1.                 *)
(***************************************************************************)
C13_MoveLeftStep ==
    AtInstruction("MoveLeft") =>
        LET n == program[instruction_pointer + 1].n
        IN  IF pointer < n
            THEN /\ pc' = "run_failed"
                 /\ run_result' = MemoryOutOfBounds((pointer - n) % (2 ^ UsizeBits))
                 /\ pointer' = pointer
                 /\ memory' = memory
            ELSE /\ pc' = "run"
                 /\ run_result' = Pending
                 /\ pointer' = pointer - n
                 /\ instruction_pointer' = instruction_pointer + 1

C13_MoveLeft == [][C13_MoveLeftStep]_vars

C13_Witness ==
    /\ pc = "run_failed"
    /\ pointer = 1
    /\ program = <<Inst("MoveRight", 1), Inst("MoveLeft", 2)>>
    /\ run_result = MemoryOutOfBounds((2 ^ UsizeBits) - 1)

(***************************************************************************)
(* C14: k consecutive increments on a cell holding v leave it at           *)
(* (v + k) mod 256 and k consecutive decrements at (v - k) mod 256, for    *)
(* k >= 256 too, and neither fails.                                        *)
(***************************************************************************)
IsArithmeticRun(ks) ==
    ks = <<>> \/ (ks[1] \in {"Increment", "Decrement"} /\ \A i \in 1..Len(ks) : ks[i] = ks[1])

C14_ArithmeticWraps ==
    LET ks == Kinds(tokens)
        fed == ks # <<>> /\ ks[1] = "Input"
        run == IF fed THEN Tail(ks) ELSE ks
        k == Len(run)
        v == IF fed THEN stdin_read[1] ELSE 0
    IN  (pc \in {"done", "run_failed"} /\ IsArithmeticRun(run) /\ (fed => stdin_read # <<>>)) =>
            /\ pc = "done"
            /\ run_result = Ok
            /\ memory[1] = IF run = <<>> THEN v
                            ELSE IF run[1] = "Increment" THEN (v + k) % 256
                            ELSE (v - k) % 256

C14_Witness ==
    /\ pc = "done"
    /\ Kinds(tokens) = <<"Input">> \o Run("Decrement", 257)
    /\ stdin_read = <<0>>
    /\ memory[1] = 255

(***************************************************************************)
(* C15: the program of n increments followed by "[>+<-]", on a fresh tape  *)
(* of two cells or more, terminates successfully with cell 0 = 0,          *)
(* cell 1 = n mod 256, the cell pointer at 0 and the instruction pointer   *)
(* at the instruction count.                                               *)
(***************************************************************************)
CounterMoved ==
    LET n == Len(tokens) - Len(MoveCounter)
    IN  /\ pc = "done"
        /\ run_result = Ok
        /\ memory[1] = 0
        /\ memory[2] = n % 256
        /\ pointer = 0
        /\ instruction_pointer = Len(program)

C15_CounterMoves ==
    /\ [](pc \in {"done", "run_failed", "compile_failed"} => CounterMoved)
    /\ <>(pc = "done")

C15_Witness ==
    /\ pc = "done"
    /\ Len(tokens) = 257 + Len(MoveCounter)
    /\ program[1] = Inst("Increment", 1)
    /\ memory[2] = 1
    /\ memory_size = 3

(***************************************************************************)
(* C16: the result of optimize never depends on earlier calls: an          *)
(* Optimizer used before, also one whose last call failed part-way with    *)
(* loop starts pending, returns what a new Optimizer returns for the same  *)
(* token sequence.                                                         *)
(***************************************************************************)
\* what an optimizer that starts from opt returns for toks[i..]
RECURSIVE CompileFrom(_, _, _)
CompileFrom(opt, toks, i) ==
    IF i > Len(toks) THEN [opt |-> opt, err |-> unmatched_check(opt)]
    ELSE LET r == process_token(opt, toks[i])
         IN  IF r.err # NoError THEN r ELSE CompileFrom(r.opt, toks, i + 1)

C16_ResultOfNewOptimizer ==
    pc \in {"compiled", "compile_failed"} =>
        LET new == CompileFrom(NewOptimizer, tokens, 1)
        IN  /\ opt_result = new.err
            /\ opt_result = Ok => instructions = new.opt.instructions

C16_Witness ==
    /\ pc = "compiled"
    /\ Len(calls) = 2
    /\ calls[1].result = "Ok"
    /\ calls[2].result = "UnmatchedBracket" /\ calls[2].pending = 2
    /\ Kinds(tokens) = <<"Increment", "MoveRight">>
    /\ instructions = <<Inst("Increment", 1), Inst("MoveRight", 1)>>

(***************************************************************************)
(* The reference execution: the source run one operator at a time, with    *)
(* the standard semantics, on a tape of the same length and against the    *)
(* same standard streams (the bytes read, and the place a stream failed).  *)
(***************************************************************************)
RefInit(size) ==
    [tape |-> [i \in 1..size |-> 0], ptr |-> 0, ip |-> 0, out |-> <<>>, nread |-> 0,
     res |-> "Running"]

RefStep(r, ks, input, fault) ==
    IF r.res # "Running" THEN r
    ELSE IF r.ip >= Len(ks) THEN [r EXCEPT !.res = "Ok"]
    ELSE
        LET k == ks[r.ip + 1]
            v == r.tape[r.ptr + 1]
            next == [r EXCEPT !.ip = @ + 1]
        IN  CASE k = "MoveRight" ->
                   IF r.ptr + 1 >= Len(r.tape) THEN [r EXCEPT !.res = "MemoryOutOfBounds"]
                   ELSE [next EXCEPT !.ptr = @ + 1]
              [] k = "MoveLeft" ->
                   IF r.ptr = 0 THEN [r EXCEPT !.res = "MemoryOutOfBounds"]
                   ELSE [next EXCEPT !.ptr = @ - 1]
              [] k = "Increment" ->
                   [next EXCEPT !.tape[r.ptr + 1] = IF v = U8Modulus - 1 THEN 0 ELSE v + 1]
              [] k = "Decrement" ->
                   [next EXCEPT !.tape[r.ptr + 1] = IF v = 0 THEN U8Modulus - 1 ELSE v - 1]
              [] k = "Output" ->
                   IF fault.on = "write" /\ Len(r.out) = fault.at
                   THEN [r EXCEPT !.res = "IoError"]
                   ELSE IF fault.on = "flush" /\ Len(r.out) + 1 = fault.at
                   THEN [r EXCEPT !.out = Append(@, v), !.res = "IoError"]
                   ELSE [next EXCEPT !.out = Append(@, v)]
              [] k = "Input" ->
                   IF r.nread < Len(input)
                   THEN [next EXCEPT !.tape[r.ptr + 1] = input[r.nread + 1],
                                     !.nread = @ + 1]
                   ELSE IF fault.on = "read" THEN [r EXCEPT !.res = "IoError"]
                   ELSE [r EXCEPT !.res = "Starved"]
              [] k = "LoopStart" ->
                   IF v = 0
                   THEN [r EXCEPT !.ip = MatchClose(ks, r.ip + 1, "LoopStart", "LoopEnd")]
                   ELSE next
              [] k = "LoopEnd" ->
                   IF v # 0
                   THEN [r EXCEPT !.ip = MatchOpen(ks, r.ip + 1, "LoopStart", "LoopEnd")]
                   ELSE next

RECURSIVE RefRun(_, _, _, _, _)
RefRun(r, n, ks, input, fault) ==
    IF r.res # "Running" \/ n = 0 THEN r
    ELSE IF n = 1 THEN RefStep(r, ks, input, fault)
    ELSE LET half == RefRun(r, n \div 2, ks, input, fault)
         IN  IF half.res # "Running" THEN half
             ELSE RefRun(half, n - (n \div 2), ks, input, fault)

Reference == RefRun(RefInit(memory_size), RefFuel, Kinds(tokens), stdin_read, io_fault)

(***************************************************************************)
(* C6: every token carries the 1-based (line, column) of its own operator  *)
(* character: the first character of the source is at 1:1, a character     *)
(* other than a newline advances the column by 1, and a newline moves to   *)
(* column 1 of the next line.                                              *)
(***************************************************************************)
\* the place in chars of the k-th operator character
OperatorIndex(chars, k) ==
    CHOOSE i \in 1..Len(chars) :
        /\ chars[i] \in OperatorChars
        /\ Cardinality({j \in 1..i : chars[j] \in OperatorChars}) = k
\* the line and column of the character at place i
LocationOf(chars, i) ==
    LET newlines == {j \in 1..(i - 1) : chars[j] = "\n"}
        line_start == IF newlines = {} THEN 0
                      ELSE CHOOSE j \in newlines : \A h \in newlines : h <= j
    IN  NewPosition(1 + Cardinality(newlines), i - line_start)

C6_PositionOfOwnCharacter ==
    LET chars == from_utf8_lossy(source)
    IN  \A k \in 1..Len(yielded) :
            yielded[k].position = LocationOf(chars, OperatorIndex(chars, k))

(***************************************************************************)
(* C7: the run of the compiled instructions ends as the reference          *)
(* execution of the source does: the same success or kind of failure, and  *)
(* on success the same tape, cell pointer and output.                      *)
(***************************************************************************)
C7_SameOutcomeAsSource ==
    /\ pc = "done" =>
         /\ Reference.res = "Ok"
         /\ Reference.tape = memory
         /\ Reference.ptr = pointer
         /\ Reference.out = stdout
    /\ pc = "run_failed" => Reference.res = run_result.kind

C7_Witness ==
    /\ pc = "done"
    /\ Kinds(tokens) = <<"Increment", "Increment", "LoopStart", "MoveRight", "Increment",
                         "Increment", "MoveLeft", "Decrement", "LoopEnd", "MoveRight",
                         "Output">>
    /\ memory = <<0, 4>>
    /\ stdout = <<4>>

(***************************************************************************)
(* C18: debug tracing changes nothing but the trace: a turn of run with    *)
(* debug on changes the tape, the pointers, the standard streams and the   *)
(* result as the turn with debug off does, a line showing the state before *)
(* the instruction is written before each executed instruction, and the    *)
(* run ends as the reference execution does.                               *)
(***************************************************************************)
C18_DebugTurn ==
    (pc = "run" /\ instruction_pointer < Len(program)) =>
        /\ pc' # "panicked"
        /\ \E io \in IoOutcomes(program[instruction_pointer + 1], Len(stdin_read),
                                 Len(stdout)) :
             LET r == execute_instruction(Interpreter, io)
             IN  /\ memory' = r.it.memory
                 /\ pointer' = r.it.pointer
                 /\ instruction_pointer' = r.it.instruction_pointer
                 /\ stdin_read' = r.it.stdin_read
                 /\ stdout' = r.it.stdout
                 /\ io_fault' = r.it.io_fault
                 /\ run_result' = IF r.err # NoError THEN r.err ELSE Pending
        /\ trace' = IF debug
                    THEN Append(trace, [kind |-> "Line",
                                        ip |-> instruction_pointer,
                                        ptr |-> pointer,
                                        cell |-> memory[pointer + 1],
                                        inst |-> program[instruction_pointer + 1]])
                    ELSE trace

C18_DebugOnlyTraces ==
    /\ [][C18_DebugTurn]_vars
    /\ [](pc = "done" =>
             /\ Reference.res = "Ok"
             /\ Reference.tape = memory
             /\ Reference.ptr = pointer
             /\ Reference.out = stdout
             /\ instruction_pointer = Len(program))
    /\ [](pc = "run_failed" => Reference.res = run_result.kind)

C18_Witness ==
    /\ pc = "done"
    /\ debug
    /\ Kinds(tokens) = <<"Input", "LoopStart", "Output", "Input", "LoopEnd">>
    /\ stdin_read = <<1, 0>>
    /\ stdout = <<1>>
    /\ Len(trace) = 5
    /\ trace[5] = [kind |-> "Line", ip |-> 4, ptr |-> 0, cell |-> 0,
                    inst |-> Inst("JumpBackward", 1)]

(***************************************************************************)
(* C19: with optimizations disabled (--no-optimize, config.optimize =      *)
(* false) the program is compiled without merging: every non-bracket       *)
(* operator becomes an instruction of its own with count 1.                *)
(***************************************************************************)
C19_NoMergingWhenDisabled ==
    (pc = "compiled" /\ ~optimize) =>
        /\ Len(instructions) = Len(tokens)
        /\ \A i \in 1..Len(tokens) :
             /\ instructions[i].op = OpOfKind(tokens[i].kind)
             /\ tokens[i].kind \notin {"LoopStart", "LoopEnd"} => instructions[i].n = 1

(***************************************************************************)
(* C20: compilation and execution are strictly phased: nothing of the      *)
(* interpreter exists, and no cell or output byte is touched, before       *)
(* optimize has consumed the whole token sequence and returned Ok; when    *)
(* reading the source or compiling fails nothing is executed afterwards.   *)
(***************************************************************************)
RunPhase == {"run", "done", "run_failed", "panicked"}
FailedBeforeRun == {"rejected", "open_failed", "compile_failed"}

C20_PhaseState ==
    /\ pc \notin RunPhase => (InterpreterIdle /\ run_result = Pending)
    /\ pc \in RunPhase =>
         /\ opt_result = Ok
         /\ lex_state = "ended"
         /\ jump_stack = <<>>
         /\ WellNested(Kinds(tokens), "LoopStart", "LoopEnd")
         /\ tokens = yielded
         /\ program = instructions
    /\ pc \in FailedBeforeRun => opt_result # Ok
    /\ lex_state = "failed" => (pc = "compile_failed" /\ opt_result = IoError)

C20_PhaseStep ==
    /\ pc \notin FailedBeforeRun
    /\ pc \in RunPhase => UNCHANGED <<lexer_vars, optimizer_vars>>
    /\ (pc \notin RunPhase /\ pc' \in RunPhase) => (pc = "compiled" /\ pc' = "run")

C20_StrictlyPhased == []C20_PhaseState /\ [][C20_PhaseStep]_vars

C20_Witness ==
    /\ pc = "compile_failed"
    /\ lex_state = "failed"
    /\ Kinds(tokens) = <<"Increment", "Output">>
    /\ instructions = <<Inst("Increment", 1), Inst("Output", 1)>>
    /\ opt_result = IoError
    /\ stdout = <<>>

(***************************************************************************)
(* C21: input(n) with n bytes or more left on standard input consumes      *)
(* exactly n bytes in order, leaves the current cell equal to the n-th     *)
(* byte read and every other cell and the pointer as they were, and        *)
(* advances the instruction pointer by 1; with fewer than n bytes left or  *)
(* on a read failure it fails with IoError and the instruction pointer     *)
(* does not advance.                                                       *)
(***************************************************************************)
C21_InputStep ==
    AtInstruction("Input") =>
        LET n == program[instruction_pointer + 1].n
            before == Len(stdin_read)
            got == Len(stdin_read') - before
        IN  /\ got \in 0..n
            /\ SubSeq(stdin_read', 1, before) = stdin_read
            /\ IF got = n
               THEN /\ pc' = "run"
                    /\ run_result' = Pending
                    /\ memory' = [memory EXCEPT ![pointer + 1] = stdin_read'[before + n]]
                    /\ pointer' = pointer
                    /\ instruction_pointer' = instruction_pointer + 1
               ELSE /\ pc' = "run_failed"
                    /\ run_result' = IoError
                    /\ pointer' = pointer
                    /\ instruction_pointer' = instruction_pointer

C21_Input == [][C21_InputStep]_vars

C21_Witness ==
    /\ pc = "done"
    /\ program = <<Inst("Input", 2)>>
    /\ stdin_read = <<1, U8Modulus - 1>>
    /\ memory[1] = U8Modulus - 1
    /\ instruction_pointer = 1

(***************************************************************************)
(* C22: a memory size of zero is rejected before the source is opened,     *)
(* tokenized or compiled: with memory size zero the program is at its      *)
(* start or has exited with the error, the lexer has read nothing, the     *)
(* optimizer has compiled nothing and there is no interpreter; every       *)
(* interpreter built has a tape of one cell or more.                       *)
(***************************************************************************)
C22_ZeroMemoryRejected ==
    /\ memory_size = 0 =>
         /\ pc \in {"main", "rejected"}
         /\ LexerFresh
         /\ tokens = <<>>
         /\ OptimizerFresh
         /\ InterpreterIdle
    /\ pc \notin {"main", "rejected"} => memory_size > 0
    /\ pc \in RunPhase => (Len(memory) = memory_size /\ Len(memory) > 0)

C22_Witness ==
    /\ pc = "rejected"
    /\ memory_size = 0
    /\ source = <<"+", "[", ">", "+", "<", "-", "]">>
    /\ reader = source
    /\ instructions = <<>>
    /\ memory = <<>>

(***************************************************************************)
(* C23: in every state of the interpreter the instruction pointer lies in  *)
(* 0..instruction count and every jump target is the index of an           *)
(* instruction; run returns Ok only with the instruction pointer equal to  *)
(* the instruction count, and an instruction is executed only at an index  *)
(* below the instruction count.                                            *)
(***************************************************************************)
JumpIndices(insts) ==
    {i \in 0..(Len(insts) - 1) : insts[i + 1].op \in {"JumpForward", "JumpBackward"}}

C23_PointerState ==
    pc \in RunPhase =>
        /\ instruction_pointer \in 0..Len(program)
        /\ \A i \in JumpIndices(program) : program[i + 1].n \in 0..(Len(program) - 1)
        /\ (pc = "done" \/ run_result = Ok) =>
               (pc = "done" /\ run_result = Ok /\ instruction_pointer = Len(program))

C23_FetchStep ==
    (pc = "run" /\ instruction_pointer >= Len(program)) =>
        /\ pc' = "done"
        /\ UNCHANGED <<program, memory, pointer, instruction_pointer, stdin_read, stdout>>

C23_InstructionPointerInRange == []C23_PointerState /\ [][C23_FetchStep]_vars

C23_Witness ==
    /\ pc = "done"
    /\ program = <<Inst("MoveRight", 1), Inst("MoveLeft", 1),
                   Inst("JumpForward", 3), Inst("JumpBackward", 2)>>
    /\ instruction_pointer = 4
    /\ run_result = Ok

(***************************************************************************)
(* C24: loop control flow. From a forward jump reached with the current    *)
(* cell 0, execution passes through nothing but the matching backward      *)
(* jump and continues at the instruction after it, with nothing but the    *)
(* instruction pointer changed; from a backward jump reached with the      *)
(* current cell not 0, execution passes through nothing but the matching   *)
(* forward jump and continues at the first instruction of the loop body,   *)
(* with tape and pointer unchanged.                                        *)
(***************************************************************************)
C24_OnlyPointerMoves ==
    /\ pc' = "run"
    /\ UNCHANGED <<program, memory, pointer, stdin_read, stdout, io_fault, run_result>>

C24_LoopStep ==
    /\ (AtInstruction("JumpForward") /\ memory[pointer + 1] = 0) =>
          /\ C24_OnlyPointerMoves
          /\ instruction_pointer' \in {MatchingBackward(instruction_pointer),
                                        MatchingBackward(instruction_pointer) + 1}
    /\ (AtInstruction("JumpBackward") /\ memory[pointer + 1] = 0) =>
          /\ C24_OnlyPointerMoves
          /\ instruction_pointer' = instruction_pointer + 1
    /\ (AtInstruction("JumpBackward") /\ memory[pointer + 1] # 0) =>
          /\ C24_OnlyPointerMoves
          /\ instruction_pointer' \in {MatchingForward(instruction_pointer),
                                        MatchingForward(instruction_pointer) + 1}
    /\ (AtInstruction("JumpForward") /\ memory[pointer + 1] # 0) =>
          /\ C24_OnlyPointerMoves
          /\ instruction_pointer' = instruction_pointer + 1

C24_LoopControlFlow == [](pc \in RunPhase => program = instructions) /\ [][C24_LoopStep]_vars

\* "+[>[+]<.]": the inner loop has been skipped with cell 1 at zero, and the
\* outer loop has gone back from its end with cell 0 at one
C24_Witness ==
    /\ pc = "run"
    /\ program = <<Inst("Increment", 1), Inst("JumpForward", 8), Inst("MoveRight", 1),
                   Inst("JumpForward", 5), Inst("Increment", 1), Inst("JumpBackward", 3),
                   Inst("MoveLeft", 1), Inst("Output", 1), Inst("JumpBackward", 1)>>
    /\ memory = <<1, 0>>
    /\ pointer = 0
    /\ stdout = <<1>>
    /\ instruction_pointer = 2

(***************************************************************************)
(* C25: during compilation the loop stack holds exactly the indices of the *)
(* forward jumps whose loop end has not been processed, in strictly        *)
(* increasing order from bottom to top; such a forward jump still holds    *)
(* the placeholder target 0, every other forward jump holds a target other *)
(* than 0; a token changes no jump instruction but the forward jump on top *)
(* of the stack, whose target a loop end writes once, into the             *)
(* placeholder, and never shortens the instruction sequence.               *)
(***************************************************************************)
\* the forward jumps that no backward jump closes
OpenForwardJumps ==
    {i \in ForwardJumps :
        \A b \in (i + 1)..Len(instructions) :
            Balance(Ops(instructions), i + 1, b, "JumpForward", "JumpBackward") > 0}

C25_StackState ==
    pc \in {"optimize", "compiled", "compile_failed"} =>
        /\ \A k \in 1..(Len(jump_stack) - 1) : jump_stack[k] < jump_stack[k + 1]
        /\ {jump_stack[k] : k \in 1..Len(jump_stack)} = OpenForwardJumps
        /\ \A i \in ForwardJumps : (instructions[i + 1].n = 0) <=> (i \in OpenForwardJumps)

C25_TokenStep ==
    (pc = "optimize" /\ tok_i < Len(tokens)) =>
        /\ Len(instructions') >= Len(instructions)
        /\ \A i \in JumpIndices(instructions) :
              \/ instructions'[i + 1] = instructions[i + 1]
              \/ /\ tokens[tok_i + 1].kind = "LoopEnd"
                 /\ jump_stack # <<>>
                 /\ i = Last(jump_stack)
                 /\ instructions[i + 1] = Inst("JumpForward", 0)
                 /\ instructions'[i + 1].op = "JumpForward"
                 /\ instructions'[i + 1].n # 0
                 /\ i \notin {jump_stack'[k] : k \in 1..Len(jump_stack')}

C25_LoopStack == []C25_StackState /\ [][C25_TokenStep]_vars

\* "[[]" and one more token: the inner loop is closed and patched, the outer
\* one is open and on the stack
C25_Witness ==
    /\ pc = "optimize"
    /\ tok_i = 4
    /\ instructions = <<Inst("JumpForward", 0), Inst("JumpForward", 2),
                        Inst("JumpBackward", 1), Inst("Increment", 1)>>
    /\ jump_stack = <<0>>

(***************************************************************************)
(* C26: when the tokens end with loop starts still unclosed (and no loop   *)
(* end came unopened), compilation fails after the last token with         *)
(* UnmatchedBracket at line 1, column 1, wherever the unclosed loop starts *)
(* are in the source and however many there are.                           *)
(***************************************************************************)
C26_UnclosedAtEnd ==
    /\ UnopenedEnds(Kinds(tokens)) = {}
    /\ Balance(Kinds(tokens), 1, Len(tokens), "LoopStart", "LoopEnd") > 0

C26_UnclosedReportsLineOneColumnOne ==
    C26_UnclosedAtEnd =>
        /\ pc # "compiled"
        /\ pc = "compile_failed" =>
             /\ tok_i = Len(tokens)
             /\ Len(jump_stack) =
                    Balance(Kinds(tokens), 1, Len(tokens), "LoopStart", "LoopEnd")
             /\ opt_result = UnmatchedBracket(NewPosition(1, 1))

C26_Witness ==
    /\ pc = "compile_failed"
    /\ Kinds(tokens) = <<"Increment", "LoopStart", "Increment", "LoopStart">>
    /\ tokens[2].position # NewPosition(1, 1)
    /\ jump_stack = <<1, 3>>
    /\ opt_result = UnmatchedBracket(NewPosition(1, 1))

(***************************************************************************)
(* C27: a compiled program without a loop instruction halts: every step of *)
(* run that succeeds moves the instruction pointer to the next             *)
(* instruction, so each instruction is executed at most once, and run      *)
(* eventually returns, at the end of the program or with an error.         *)
(***************************************************************************)
C27_SuccessfulStep ==
    (pc = "run" /\ pc' = "run") =>
        /\ JumpIndices(program) = {}
        /\ instruction_pointer' = instruction_pointer + 1
        /\ instruction_pointer' <= Len(program)

C27_LoopFreeHalts ==
    /\ [][C27_SuccessfulStep]_vars
    /\ <>(pc \in {"done", "run_failed"})

C27_Witness ==
    /\ pc = "done"
    /\ program = <<Inst("Input", 1), Inst("Output", 1), Inst("Increment", 1)>>
    /\ stdin_read = <<1>>
    /\ stdout = <<1>>
    /\ memory[1] = 2
    /\ instruction_pointer = 3

(***************************************************************************)
(* C28: execution changes neither the instruction sequence nor the length  *)
(* of the tape: the interpreter starts with the instructions the compiler  *)
(* returned and a tape of memory_size cells, all zero; after any number of *)
(* instructions, the failing one included, its instructions are still      *)
(* those the compiler returned, which the compiler still holds, and the    *)
(* tape still has memory_size cells.                                       *)
(***************************************************************************)
C28_FrameState ==
    pc \in RunPhase =>
        /\ program = instructions
        /\ Len(memory) = memory_size
        /\ \A i \in 1..Len(memory) : memory[i] \in 0..(U8Modulus - 1)

C28_FrameStep ==
    /\ (pc = "compiled" /\ pc' = "run") =>
          /\ program' = instructions
          /\ memory' = [i \in 1..memory_size |-> 0]
    /\ pc \in RunPhase =>
          /\ UNCHANGED <<program, instructions, memory_size>>
          /\ Len(memory') = Len(memory)

C28_ExecutionKeepsProgramAndTape == []C28_FrameState /\ [][C28_FrameStep]_vars

\* ",[.,]" with one byte of input: three instructions have succeeded and the
\* second read has failed at the end of input
C28_Witness ==
    /\ pc = "run_failed"
    /\ program = <<Inst("Input", 1), Inst("JumpForward", 4), Inst("Output", 1),
                   Inst("Input", 1), Inst("JumpBackward", 1)>>
    /\ program = instructions
    /\ instruction_pointer = 3
    /\ stdin_read = <<1>>
    /\ stdout = <<1>>
    /\ memory = <<1, 0>>
    /\ memory_size = 2

====
